---- MODULE Spec2Model ----
(***************************************************************************)
(* HappyTransformer: construction (device selection), train() and the      *)
(* dataset preparation / trainer dispatch it drives.                       *)
(*                                                                         *)
(* One HappyTransformer instance is modelled.  A call of train() runs      *)
(* synchronously through three positions: the argument check of train(),   *)
(* _preprocess_data_train() and _run_train().  Every library call the code *)
(* makes is recorded, in order, in `log`, so that "X happens before Y" is  *)
(* a statement about the log of the current call.                          *)
(*                                                                         *)
(* File paths are sequences of one-character strings so that               *)
(* os.path.splitext and str.endswith are computed, not assumed.            *)
(***************************************************************************)
EXTENDS Integers, Sequences, FiniteSets, TLC

VARIABLES
    torch,          \* availability flags of the machine: mps / mps built / cuda
    cls,            \* the facade subclass being constructed
    device,         \* self.device (its .type), "unset" before __init__
    model_device,   \* the device self.model was last moved to
    _type,          \* self._type, set by the subclass
    _t_data_file_type, \* self._t_data_file_type, set by the subclass
    pc,             \* position of the caller / of the running train() call
    call,           \* <<>> or <<[input_filepath, eval_filepath, args]>>
    log,            \* library calls of the current train() call, in order
    tok,            \* <<>> or <<[train, eval]>>: result of _preprocess_data_train
    training_args,  \* <<>> or <<kwargs handed to (Seq2Seq)TrainingArguments>>
    exc,            \* the exception the current call raised, NoExc if none
    disk,           \* <<>> or <<[train, eval]>>: dataset saved at CacheDir
    first_run,      \* <<>> or <<tok of the preceding, identical call>>
    calls,          \* number of train() and eval() calls made so far
    eval_call,      \* <<>> or <<[input_filepath, args]>> of the running eval()
    tokenized_dataset, \* <<>> or <<result of _preprocess_data_eval>>
    \* HappyXLNET (the sequence-classifier wrapper)
    seq,            \* self.seq: <<>> (None) or <<the SequenceClassifier held>>
    seq_trained,    \* self.seq_trained
    classifier_name, \* self.classifier_name
    seq_args,       \* self.seq_args, the dict shared with the classifier
    data_files,     \* the .tsv files written under data/
    last_run        \* <<>> or <<the latest run_sequence_classifier()>>

\* the state of the HappyXLNET instance
xlnet == <<seq, seq_trained, classifier_name, seq_args, data_files, last_run>>

vars == <<torch, cls, device, model_device, _type, _t_data_file_type, pc, call,
          log, tok, training_args, exc, disk, first_run, calls, eval_call,
          tokenized_dataset, xlnet>>

----------------------------------------------------------------------------
(* Bounds of the model *)

\* rows in every source file
NumRecords == 2
\* eval_ratio is the rational k / RatioDen
RatioDen == 2
\* train() calls per behaviour
MaxCalls == 2
\* largest step count a caller passes for save/eval/logging steps
MaxSteps == 2

----------------------------------------------------------------------------
(* Paths *)

TrainTxt  == <<"d", ".", "t", "x", "t">>
TrainCsv  == <<"d", ".", "c", "s", "v">>
TrainJson == <<"d", ".", "j", "s", "o", "n">>
DotTxt    == <<"a", "/", ".", "t", "x", "t">>
EvalTxt   == <<"e", ".", "t", "x", "t">>
EvalCsv   == <<"e", ".", "c", "s", "v">>
EmptyPath == <<>>
CacheDir  == <<"c", "/">>
CacheJson == <<"c", ".", "j", "s", "o", "n">>

ExtTxt  == <<".", "t", "x", "t">>
ExtCsv  == <<".", "c", "s", "v">>
ExtJson == <<".", "j", "s", "o", "n">>

\* str.endswith
EndsWith(s, suffix) ==
    /\ Len(s) >= Len(suffix)
    /\ SubSeq(s, Len(s) - Len(suffix) + 1, Len(s)) = suffix

\* str.rfind, 1-based; 0 when the character does not occur
RFind(s, c) ==
    LET hits == {i \in 1..Len(s) : s[i] = c}
    IN  IF hits = {} THEN 0 ELSE CHOOSE i \in hits : \A j \in hits : j <= i

\* os.path.splitext: the extension starts at the last dot of the last path
\* component, unless that component has only dots before it.
splitext(p) ==
    LET sepIndex == RFind(p, "/")
        dotIndex == RFind(p, ".")
        hasExt   == /\ dotIndex > sepIndex
                    /\ \E k \in (sepIndex + 1)..(dotIndex - 1) : p[k] /= "."
    IN  IF hasExt
        THEN <<SubSeq(p, 1, dotIndex - 1), SubSeq(p, dotIndex, Len(p))>>
        ELSE <<p, <<>>>>

----------------------------------------------------------------------------
(* Exceptions and log entries *)

NoExc == [kind |-> "None", msg |-> "None"]
Raise(kind, msg) == [kind |-> kind, msg |-> msg]

Ev(op, arg, res) == [op |-> op, arg |-> arg, res |-> res]

Ops(l) == {l[i].op : i \in 1..Len(l)}

----------------------------------------------------------------------------
(* Construction *)

\* to_auto_device: three independent `if`s, the later assignment wins
to_auto_device(t) ==
    LET afterMps  == IF t.mps_available /\ t.mps_built THEN "mps" ELSE "None"
        afterCuda == IF t.cuda_available THEN "cuda" ELSE afterMps
    IN  IF afterCuda = "None" THEN "cpu" ELSE afterCuda

\* HappyGeneration.__init__, after super().__init__
GenerationSettings == [_type |-> "gen", _t_data_file_type |-> {"text"}]

\* The other facades: their _type values are the ones the dispatch compares
\* against; their file types follow the formats their tasks read.
OtherSettings(c) ==
    IF c = "HappyTextToText"
    THEN [_type |-> "tt", _t_data_file_type |-> {"csv"}]
    ELSE [_type |-> "wp", _t_data_file_type |-> {"text"}]

Settings(c) == IF c = "HappyGeneration" THEN GenerationSettings ELSE OtherSettings(c)

Classes == {"HappyGeneration", "HappyTextToText", "HappyWordPrediction"}

----------------------------------------------------------------------------
(* File-type resolution *)

ending_map == [e \in {ExtTxt, ExtCsv} |-> IF e = ExtTxt THEN "text" ELSE "csv"]

\* _check_file_type.  A missing key of ending_map is a KeyError.  The
\* ValueError for a format the task does not support is constructed and
\* dropped (there is no `raise`), so t_data_file_type has no effect.
_check_file_type(file_path, t_data_file_type) ==
    LET file_extension == splitext(file_path)[2]
    IN  IF file_extension \notin DOMAIN ending_map
        THEN [exc |-> Raise("KeyError", "file_extension"), ending |-> "None"]
        ELSE LET ending  == ending_map[file_extension]
                 dropped == IF ending \notin t_data_file_type
                            THEN Raise("ValueError", "Invalid file type")
                            ELSE NoExc
             IN  [exc |-> NoExc, ending |-> ending]

----------------------------------------------------------------------------
(* Datasets *)

\* load_dataset(file_type, data_files={...: path}): the rows of the file at
\* `path`, parsed as `file_type`.  Every source path names an existing file.
load_dataset(file_type, path) ==
    [i \in 1..NumRecords |-> [file |-> path, n |-> i, parsed |-> file_type]]

\* Dataset.shuffle(seed=42): one fixed permutation (the seeded generator's),
\* stood for by reversal.
shuffle(rows) == [i \in 1..Len(rows) |-> rows[Len(rows) + 1 - i]]

Perms(n) == {f \in [1..n -> 1..n] : \A i, j \in 1..n : f[i] = f[j] => i = j}

\* Dataset.train_test_split(test_size=k/RatioDen), called without a seed:
\* shuffle defaults to True and draws a fresh permutation, so every
\* permutation is a possible outcome.  test = perm[:n_test],
\* train = perm[n_test:].  A float test_size outside (0, 1), or an empty
\* train part, is the library's ValueError.
train_test_split(rows, k) ==
    LET n       == Len(rows)
        n_test  == (k * n + RatioDen - 1) \div RatioDen
        n_train == n - n_test
    IN  IF k <= 0 \/ k >= RatioDen \/ n_train <= 0
        THEN {[exc |-> Raise("ValueError", "test_size"), train |-> <<>>, test |-> <<>>]}
        ELSE {[exc   |-> NoExc,
               train |-> [i \in 1..n_train |-> rows[perm[n_test + i]]],
               test  |-> [i \in 1..n_test |-> rows[perm[i]]]] : perm \in Perms(n)}

\* A task encoder: deterministic, row by row.
TaskEncoder(raw, format) ==
    [i \in 1..Len(raw) |-> [row |-> raw[i], encoded |-> format]]

\* self._tok_function(raw, args, format).  HappyGeneration's override takes
\* (raw_dataset, args) only, so the three-argument call is a TypeError.
_tok_function(c, raw, format) ==
    IF c = "HappyGeneration"
    THEN [exc |-> Raise("TypeError", "_tok_function"), data |-> <<>>]
    ELSE [exc |-> NoExc, data |-> TaskEncoder(raw, format)]

----------------------------------------------------------------------------
(* train(): argument check *)

InvalidEvalArgs_ZeroAllowed(args, eval_filepath) ==
    args.eval_ratio < 0 /\ eval_filepath = EmptyPath

\* `args.eval_ratio <= 0 and eval_filepath == ""`
InvalidEvalArgs(args, eval_filepath) ==
    args.eval_ratio <= 0 /\ eval_filepath = EmptyPath

----------------------------------------------------------------------------
(* _preprocess_data_train, branch by branch.  Each branch yields the set   *)
(* of its possible outcomes [log, tok, exc].                               *)

Failed(l, e) == [log |-> l, tok |-> <<>>, exc |-> e]

\* load_preprocessed_data off, no eval_filepath: one file, shuffled and split
RawSplit(c, tdft, input_filepath, args) ==
    LET file_type == _check_file_type(input_filepath, tdft)
        checked   == <<Ev("_check_file_type", input_filepath, file_type.ending)>>
        read      == checked \o
                     <<Ev("load_dataset", input_filepath, file_type.ending),
                       Ev("shuffle", input_filepath, "seed=42"),
                       Ev("train_test_split", input_filepath, "no seed")>>
    IN  IF file_type.exc /= NoExc
        THEN {Failed(checked, file_type.exc)}
        ELSE LET all_raw_data ==
                     shuffle(load_dataset(file_type.ending, input_filepath))
             IN  {IF split.exc /= NoExc
                  THEN Failed(read, split.exc)
                  ELSE LET train_tok == _tok_function(c, split.train, file_type.ending)
                           eval_tok  == _tok_function(c, split.test, file_type.ending)
                           tok1 == Ev("_tok_function", input_filepath, "train")
                           tok2 == Ev("_tok_function", input_filepath, "test")
                       IN  IF train_tok.exc /= NoExc
                           THEN Failed(read, train_tok.exc)
                           ELSE IF eval_tok.exc /= NoExc
                           THEN Failed(read \o <<tok1>>, eval_tok.exc)
                           ELSE [log |-> read \o <<tok1, tok2>>,
                                 tok |-> <<[train |-> train_tok.data,
                                            eval  |-> eval_tok.data]>>,
                                 exc |-> NoExc]
                  : split \in train_test_split(all_raw_data, args.eval_ratio)}

\* load_preprocessed_data off, eval_filepath given: two files.  Both file
\* types are resolved from input_filepath, so the comparison is between two
\* equal values.
RawPair(c, tdft, input_filepath, eval_filepath, args) ==
    LET train_file_type == _check_file_type(input_filepath, tdft)
        eval_file_type  == _check_file_type(input_filepath, tdft)
        checked1 == <<Ev("_check_file_type", input_filepath, train_file_type.ending)>>
        checked2 == checked1 \o
                    <<Ev("_check_file_type", input_filepath, eval_file_type.ending)>>
        read     == checked2 \o
                    <<Ev("load_dataset", input_filepath, train_file_type.ending),
                      Ev("load_dataset", eval_filepath, train_file_type.ending)>>
        train_tok == _tok_function(c, load_dataset(train_file_type.ending, input_filepath),
                                   train_file_type.ending)
        eval_tok  == _tok_function(c, load_dataset(train_file_type.ending, eval_filepath),
                                   train_file_type.ending)
        tok1 == Ev("_tok_function", input_filepath, "train")
        tok2 == Ev("_tok_function", eval_filepath, "eval")
    IN  IF train_file_type.exc /= NoExc THEN {Failed(checked1, train_file_type.exc)}
        ELSE IF eval_file_type.exc /= NoExc THEN {Failed(checked2, eval_file_type.exc)}
        ELSE IF train_file_type.ending /= eval_file_type.ending
        THEN {Failed(checked2, Raise("ValueError", "Train file-type must be the same"))}
        ELSE IF train_tok.exc /= NoExc THEN {Failed(read, train_tok.exc)}
        ELSE IF eval_tok.exc /= NoExc THEN {Failed(read \o <<tok1>>, eval_tok.exc)}
        ELSE {[log |-> read \o <<tok1, tok2>>,
               tok |-> <<[train |-> train_tok.data, eval |-> eval_tok.data]>>,
               exc |-> NoExc]}

FromCache_ReadsEvalFile(eval_filepath, args, dsk) ==
    IF EndsWith(args.save_preprocessed_data_path, ExtJson)
    THEN {Failed(<<>>, Raise("ValueError", "preprocessed files are not json"))}
    ELSE IF dsk = <<>>
    THEN {Failed(<<Ev("load_from_disk", args.load_preprocessed_data_path, "train+eval")>>,
                 Raise("FileNotFoundError", "load_from_disk"))}
    ELSE {[log |-> <<Ev("load_from_disk", args.load_preprocessed_data_path, "train+eval")>>
                   \o (IF eval_filepath /= EmptyPath
                       THEN <<Ev("load_dataset", eval_filepath, "text")>>
                       ELSE <<>>),
           tok |-> <<[train |-> dsk[1].train,
                      eval  |-> IF eval_filepath /= EmptyPath
                                THEN TaskEncoder(load_dataset("text", eval_filepath), "text")
                                ELSE dsk[1].eval]>>,
           exc |-> NoExc]}

\* load_preprocessed_data on.  The .json test reads
\* save_preprocessed_data_path, whatever save_preprocessed_data is.
\* load_from_disk of a directory that was never saved is the library's
\* FileNotFoundError; a directory saved by eval() holds no "train"
\* partition (written as the empty train part, which train() never saves),
\* and tok_data["train"] is then a KeyError.
FromCache(eval_filepath, args, dsk) ==
    LET warned == IF eval_filepath /= EmptyPath
                  THEN <<Ev("logger.warning", eval_filepath, "eval from cache")>>
                  ELSE <<>>
        read   == warned \o
                  <<Ev("load_from_disk", args.load_preprocessed_data_path, "train+eval")>>
    IN  IF EndsWith(args.save_preprocessed_data_path, ExtJson)
        THEN {Failed(<<>>, Raise("ValueError", "preprocessed files are not json"))}
        ELSE IF dsk = <<>>
        THEN {Failed(read, Raise("FileNotFoundError", "load_from_disk"))}
        ELSE IF dsk[1].train = <<>>
        THEN {Failed(read, Raise("KeyError", "train"))}
        ELSE {[log |-> read,
               tok |-> <<[train |-> dsk[1].train, eval |-> dsk[1].eval]>>,
               exc |-> NoExc]}

\* `if args.save_preprocessed_data:` at the end of _preprocess_data_train
SavePreprocessed(out, args, dsk) ==
    IF out.exc /= NoExc \/ ~args.save_preprocessed_data
    THEN [log |-> out.log, tok |-> out.tok, exc |-> out.exc, disk |-> dsk]
    ELSE IF EndsWith(args.save_preprocessed_data_path, ExtJson)
    THEN [log |-> out.log, tok |-> <<>>,
          exc |-> Raise("ValueError", "preprocessed files are not json"), disk |-> dsk]
    ELSE [log  |-> out.log \o
                   <<Ev("save_to_disk", args.save_preprocessed_data_path, "train+eval")>>,
          tok  |-> out.tok, exc |-> NoExc, disk |-> out.tok]

----------------------------------------------------------------------------
(* Trainer dispatch *)

_get_training_args_OneSwitch(args, dev, type) ==
    LET on == IF args.save_steps > 0 THEN "steps" ELSE "no"
    IN  [arg_class           |-> IF type = "tt" THEN "Seq2SeqTrainingArguments"
                                                ELSE "TrainingArguments",
         save_strategy       |-> on,
         save_steps          |-> args.save_steps,
         evaluation_strategy |-> on,
         eval_steps          |-> args.eval_steps,
         logging_strategy    |-> on,
         logging_steps       |-> args.logging_steps,
         fp16                |-> args.fp16,
         use_mps_device      |-> dev = "mps"]

\* _get_training_args: the kwargs handed to arg_class.  The fp16 ValueError
\* is constructed and dropped (there is no `raise`).
_get_training_args(args, dev, type) ==
    LET dropped == IF dev /= "cuda" /\ args.fp16
                   THEN Raise("ValueError", "fp16 is only available with CUDA")
                   ELSE NoExc
    IN  [arg_class           |-> IF type = "tt" THEN "Seq2SeqTrainingArguments"
                                                ELSE "TrainingArguments",
         save_strategy       |-> IF args.save_steps > 0 THEN "steps" ELSE "no",
         save_steps          |-> args.save_steps,
         evaluation_strategy |-> IF args.eval_steps > 0 THEN "steps" ELSE "no",
         eval_steps          |-> args.eval_steps,
         logging_strategy    |-> IF args.logging_steps > 0 THEN "steps" ELSE "no",
         logging_steps       |-> args.logging_steps,
         fp16                |-> args.fp16,
         use_mps_device      |-> dev = "mps"]

\* train_class of _run_train
train_class(type) == IF type = "tt" THEN "Seq2SeqTrainer" ELSE "Trainer"

\* _get_eval_args: always a TrainingArguments
_get_eval_args(args, dev) ==
    [arg_class      |-> "TrainingArguments",
     report_to      |-> "none",
     use_mps_device |-> dev = "mps"]

\* the trainer _run_eval builds: Trainer, whatever self._type is
eval_class(type) == "Trainer"

----------------------------------------------------------------------------
(* _preprocess_data_eval: its outcome [log, data, exc, disk] *)

PreprocessEval(c, tdft, input_filepath, args, dsk) ==
    LET eval_file_type == _check_file_type(input_filepath, tdft)
        checked == <<Ev("_check_file_type", input_filepath, eval_file_type.ending)>>
        read    == checked \o
                   <<Ev("load_dataset", input_filepath, eval_file_type.ending)>>
        encoded == _tok_function(c, load_dataset(eval_file_type.ending, input_filepath),
                                 eval_file_type.ending)
        cached  == <<Ev("load_from_disk", args.load_preprocessed_data_path, "eval")>>
        loaded  ==
            IF ~args.load_preprocessed_data
            THEN IF eval_file_type.exc /= NoExc
                 THEN [log |-> checked, data |-> <<>>, exc |-> eval_file_type.exc]
                 ELSE IF encoded.exc /= NoExc
                 THEN [log |-> read, data |-> <<>>, exc |-> encoded.exc]
                 ELSE [log  |-> read \o <<Ev("_tok_function", input_filepath, "eval")>>,
                       data |-> <<encoded.data>>, exc |-> NoExc]
            ELSE IF dsk = <<>>
                 THEN [log |-> cached, data |-> <<>>,
                       exc |-> Raise("FileNotFoundError", "load_from_disk")]
                 ELSE [log |-> cached, data |-> <<dsk[1].eval>>, exc |-> NoExc]
        warned  == IF args.load_preprocessed_data
                   THEN <<Ev("logger.warning", EmptyPath, "save and load both enabled")>>
                   ELSE <<>>
    IN  IF loaded.exc /= NoExc \/ ~args.save_preprocessed_data
        THEN [log |-> loaded.log, data |-> loaded.data, exc |-> loaded.exc, disk |-> dsk]
        ELSE [log  |-> loaded.log \o warned \o
                       <<Ev("save_to_disk", args.save_preprocessed_data_path, "eval")>>,
              data |-> loaded.data,
              exc  |-> NoExc,
              disk |-> IF args.save_preprocessed_data_path = CacheDir
                       THEN <<[train |-> <<>>, eval |-> loaded.data[1]]>>
                       ELSE dsk]

----------------------------------------------------------------------------
(* Inputs *)

Machines == [mps_available : BOOLEAN, mps_built : BOOLEAN, cuda_available : BOOLEAN]

\* a machine without accelerators and one with a CUDA GPU
PlainMachines == {m \in Machines : ~m.mps_available /\ ~m.mps_built}

\* numerators k of eval_ratio = k / RatioDen: negative, zero and inside (0, 1)
EvalRatios == {-1, 0, 1}

StepValues == {-1, 0, MaxSteps}

\* the fields of EvalArgs that eval() reads
EvalArgs(loads, saves, savePaths) ==
    [load_preprocessed_data       : loads,
     load_preprocessed_data_path  : {CacheDir},
     save_preprocessed_data       : saves,
     save_preprocessed_data_path  : savePaths]

TrainArgs(ratios, loads, saves, savePaths, fp16s, steps) ==
    [eval_ratio                   : ratios,
     load_preprocessed_data       : loads,
     load_preprocessed_data_path  : {CacheDir},
     save_preprocessed_data       : saves,
     save_preprocessed_data_path  : savePaths,
     fp16                         : fp16s,
     save_steps                   : steps,
     eval_steps                   : steps,
     logging_steps                : steps]

\* the calls of the data-preparation runs: every path and cache setting
InputPaths   == {TrainTxt, TrainCsv, TrainJson, DotTxt}
EvalPaths    == {EmptyPath, EvalTxt, EvalCsv}
PipelineArgs == TrainArgs(EvalRatios, BOOLEAN, BOOLEAN, {CacheDir, CacheJson},
                          {FALSE}, {0})

\* the calls of the dispatch runs: every fp16 and step setting
DispatchInputPaths == {TrainCsv}
DispatchEvalPaths  == {EvalCsv}
DispatchArgs == TrainArgs({1}, {FALSE}, {FALSE}, {CacheDir}, BOOLEAN, StepValues)

----------------------------------------------------------------------------
(* HappyXLNET: state after construction *)

\* classifier_args.copy(): neither mode is switched on, no classifier named
classifier_args ==
    [do_train        |-> FALSE,
     do_eval         |-> FALSE,
     classifier_name |-> "",
     model_name      |-> "",
     output_dir      |-> <<>>,
     cache_dir       |-> <<>>,
     data_dir        |-> <<>>]

\* self.model_version
model_version == "xlnet-large-cased"

\* HappyXLNET.__init__
XLNetConstructed ==
    /\ seq = <<>>
    /\ seq_trained = FALSE
    /\ classifier_name = ""
    /\ seq_args = classifier_args
    /\ data_files = {}
    /\ last_run = <<>>

\* the calls of the train-and-evaluate runs
FacadeTrainArgs == TrainArgs({1}, BOOLEAN, BOOLEAN, {CacheDir}, {FALSE}, {0})
FacadeEvalPaths == {EvalTxt, EvalCsv}
FacadeEvalArgs  == EvalArgs(BOOLEAN, BOOLEAN, {CacheDir, CacheJson})

----------------------------------------------------------------------------
(* Actions *)

InitOn(machines) ==
    /\ torch \in machines
    /\ cls \in Classes
    /\ device = "unset"
    /\ model_device = "unset"
    /\ _type = "unset"
    /\ _t_data_file_type = {}
    /\ pc = "new"
    /\ call = <<>>
    /\ log = <<>>
    /\ tok = <<>>
    /\ training_args = <<>>
    /\ exc = NoExc
    /\ disk = <<>>
    /\ first_run = <<>>
    /\ calls = 0
    /\ eval_call = <<>>
    /\ tokenized_dataset = <<>>
    /\ XLNetConstructed

\* HappyTransformer.__init__ followed by the subclass's own assignments
__init__ ==
    /\ pc = "new"
    /\ device' = to_auto_device(torch)
    /\ model_device' = device'
    /\ _type' = Settings(cls)._type
    /\ _t_data_file_type' = Settings(cls)._t_data_file_type
    /\ pc' = "ready"
    /\ UNCHANGED <<torch, cls, call, log, tok, training_args, exc, disk,
                   first_run, calls, eval_call, tokenized_dataset, xlnet>>

\* train(), up to the call of _preprocess_data_train.  args is a TrainArgs,
\* never a dict.
Enter(input_filepath, args, eval_filepath, prior) ==
    /\ calls < MaxCalls
    /\ calls' = calls + 1
    /\ call' = <<[input_filepath |-> input_filepath,
                  eval_filepath  |-> eval_filepath,
                  args           |-> args]>>
    /\ log' = <<>>
    /\ tok' = <<>>
    /\ training_args' = <<>>
    /\ first_run' = prior
    /\ IF InvalidEvalArgs(args, eval_filepath)
       THEN /\ pc' = "raised"
            /\ exc' = Raise("ValueError", "Please set TrainArgs.eval_ratio")
       ELSE /\ pc' = "preprocess"
            /\ exc' = NoExc
    /\ UNCHANGED <<torch, cls, device, model_device, _type, _t_data_file_type, disk,
                   eval_call, tokenized_dataset, xlnet>>

train(input_filepath, args, eval_filepath) ==
    /\ pc = "ready"
    /\ Enter(input_filepath, args, eval_filepath, <<>>)

\* the caller repeats the call that just returned, with the same arguments
train_again ==
    /\ pc = "returned"
    /\ call /= <<>>
    /\ Enter(call[1].input_filepath, call[1].args, call[1].eval_filepath, tok)

_preprocess_data_train ==
    /\ pc = "preprocess"
    /\ LET input_filepath == call[1].input_filepath
           eval_filepath  == call[1].eval_filepath
           args           == call[1].args
           branch == IF ~args.load_preprocessed_data
                     THEN IF eval_filepath = EmptyPath
                          THEN RawSplit(cls, _t_data_file_type, input_filepath, args)
                          ELSE RawPair(cls, _t_data_file_type, input_filepath,
                                       eval_filepath, args)
                     ELSE FromCache(eval_filepath, args, disk)
       IN  \E loaded \in branch :
              LET out == SavePreprocessed(loaded, args, disk)
              IN  /\ log' = log \o out.log
                  /\ tok' = out.tok
                  /\ exc' = out.exc
                  /\ disk' = out.disk
                  /\ pc' = IF out.exc = NoExc THEN "run_train" ELSE "raised"
    /\ UNCHANGED <<torch, cls, device, model_device, _type, _t_data_file_type,
                   call, training_args, first_run, calls, eval_call,
                   tokenized_dataset, xlnet>>

\* _run_train.  Whether the library's argument class itself rejects fp16
\* off CUDA depends on the installed transformers version: both outcomes
\* are possible.
_run_train ==
    /\ pc = "run_train"
    /\ LET args == call[1].args
           kwargs == _get_training_args(args, device, _type)
           built == <<Ev("_get_training_args", EmptyPath, kwargs.arg_class)>>
       IN  /\ training_args' = <<kwargs>>
           /\ \E rejected \in (IF args.fp16 /\ device /= "cuda" THEN BOOLEAN ELSE {FALSE}) :
                 IF rejected
                 THEN /\ log' = log \o built
                      /\ exc' = Raise("ValueError", "transformers: fp16 needs CUDA")
                      /\ pc' = "raised"
                 ELSE /\ log' = log \o built \o
                                <<Ev("train_class", EmptyPath, train_class(_type)),
                                  Ev("trainer.train", EmptyPath, "run")>>
                      /\ exc' = NoExc
                      /\ pc' = "returned"
    /\ UNCHANGED <<torch, cls, device, model_device, _type, _t_data_file_type,
                   call, tok, disk, first_run, calls, eval_call,
                   tokenized_dataset, xlnet>>

\* eval(), up to the call of _preprocess_data_eval.  args is an EvalArgs,
\* never a dict.
eval(input_filepath, args) ==
    /\ pc = "ready"
    /\ calls < MaxCalls
    /\ calls' = calls + 1
    /\ eval_call' = <<[input_filepath |-> input_filepath, args |-> args]>>
    /\ log' = <<>>
    /\ tokenized_dataset' = <<>>
    /\ exc' = NoExc
    /\ pc' = "preprocess_eval"
    /\ UNCHANGED <<torch, cls, device, model_device, _type, _t_data_file_type,
                   call, tok, training_args, disk, first_run, xlnet>>

_preprocess_data_eval ==
    /\ pc = "preprocess_eval"
    /\ LET out == PreprocessEval(cls, _t_data_file_type, eval_call[1].input_filepath,
                                 eval_call[1].args, disk)
       IN  /\ log' = log \o out.log
           /\ tokenized_dataset' = out.data
           /\ exc' = out.exc
           /\ disk' = out.disk
           /\ pc' = IF out.exc = NoExc THEN "run_eval" ELSE "raised"
    /\ UNCHANGED <<torch, cls, device, model_device, _type, _t_data_file_type,
                   call, tok, training_args, first_run, calls, eval_call, xlnet>>

\* _run_eval, then eval() returns EvalResult(loss=result["eval_loss"])
_run_eval ==
    /\ pc = "run_eval"
    /\ log' = log \o
              <<Ev("_get_eval_args", EmptyPath,
                   _get_eval_args(eval_call[1].args, device).arg_class),
                Ev("eval_class", EmptyPath, eval_class(_type)),
                Ev("trainer.evaluate", EmptyPath, "run")>>
    /\ pc' = "returned"
    /\ UNCHANGED <<torch, cls, device, model_device, _type, _t_data_file_type,
                   call, tok, training_args, exc, disk, first_run, calls, eval_call,
                   tokenized_dataset, xlnet>>

\* train() or eval() has returned or raised; the caller goes on
Finish ==
    /\ pc \in {"returned", "raised"}
    /\ pc' = "ready"
    /\ call' = <<>>
    /\ eval_call' = <<>>
    /\ log' = <<>>
    /\ tok' = <<>>
    /\ tokenized_dataset' = <<>>
    /\ training_args' = <<>>
    /\ exc' = NoExc
    /\ first_run' = <<>>
    /\ UNCHANGED <<torch, cls, device, model_device, _type, _t_data_file_type,
                   disk, calls, xlnet>>

----------------------------------------------------------------------------
(* Specifications *)

Init == InitOn(PlainMachines)

Next ==
    \/ __init__
    \/ \E input_filepath \in InputPaths, eval_filepath \in EvalPaths,
          args \in PipelineArgs : train(input_filepath, args, eval_filepath)
    \/ train_again
    \/ _preprocess_data_train
    \/ _run_train
    \/ Finish

Spec == Init /\ [][Next]_vars

InitDispatch == InitOn(Machines)

NextDispatch ==
    \/ __init__
    \/ \E input_filepath \in DispatchInputPaths, eval_filepath \in DispatchEvalPaths,
          args \in DispatchArgs : train(input_filepath, args, eval_filepath)
    \/ train_again
    \/ _preprocess_data_train
    \/ _run_train
    \/ Finish

SpecDispatch == InitDispatch /\ [][NextDispatch]_vars

InitFacade == InitOn(PlainMachines)

NextFacade ==
    \/ __init__
    \/ \E input_filepath \in DispatchInputPaths, eval_filepath \in DispatchEvalPaths,
          args \in FacadeTrainArgs : train(input_filepath, args, eval_filepath)
    \/ _preprocess_data_train
    \/ _run_train
    \/ \E input_filepath \in FacadeEvalPaths, args \in FacadeEvalArgs :
          eval(input_filepath, args)
    \/ _preprocess_data_eval
    \/ _run_eval
    \/ Finish

SpecFacade == InitFacade /\ [][NextFacade]_vars

----------------------------------------------------------------------------
(* HappyXLNET: the sequence classifier *)

\* the variables of the HappyTransformer facade modelled above
facade == <<torch, cls, device, model_device, _type, _t_data_file_type, pc, call,
            log, tok, training_args, exc, disk, first_run, calls, eval_call,
            tokenized_dataset>>

ClassifierNames == {"a", "b"}
DataFrames == {"df1", "df2"}

\* SequenceClassifier(self.seq_args): a fresh classifier, not yet trained
SequenceClassifier(args) == [name |-> args.classifier_name, trained |-> FALSE]

\* run_sequence_classifier(): the classifier reads the shared args dict; a
\* run with do_train leaves it trained.
run_sequence_classifier(classifier, args) ==
    [classifier |-> [classifier EXCEPT !.trained = @ \/ args.do_train],
     run        |-> [do_train |-> args.do_train, do_eval |-> args.do_eval,
                     classifier |-> classifier]]

\* DataFrame.to_csv(data_path, ...): the file is (over)written
to_csv(files, data_path, df) ==
    {f \in files : f.path /= data_path} \cup {[path |-> data_path, df |-> df]}

_init_sequence_classifier(name) ==
    /\ classifier_name' = name
    /\ seq_args' = [seq_args EXCEPT !.classifier_name = name,
                                    !.model_name = model_version,
                                    !.output_dir = <<"outputs/", name>>,
                                    !.cache_dir = <<"cache/", name>>,
                                    !.data_dir = <<"data/", name>>]
    /\ seq' = <<SequenceClassifier(seq_args')>>
    /\ UNCHANGED <<seq_trained, data_files, last_run, facade>>

\* with self.seq None this only prints and returns (no state change)
_train_sequence_classifier(train_df) ==
    /\ seq /= <<>>
    /\ LET data_path == <<"data/", classifier_name, "/train.tsv">>
           ran == run_sequence_classifier(seq[1], [seq_args EXCEPT !.do_train = TRUE])
       IN  /\ data_files' = to_csv(data_files, data_path, train_df)
           /\ seq' = <<ran.classifier>>
           /\ last_run' = <<ran.run>>
           /\ seq_args' = [seq_args EXCEPT !.do_train = FALSE]
           /\ seq_trained' = TRUE
    /\ UNCHANGED <<classifier_name, facade>>

\* with self.seq_trained False this only prints and returns (no state change)
_test_sequence_classifier(test_df) ==
    /\ seq_trained
    /\ LET data_path == <<"data/", classifier_name, "/dev.tsv">>
           ran == run_sequence_classifier(seq[1], [seq_args EXCEPT !.do_eval = TRUE])
       IN  /\ data_files' = to_csv(data_files, data_path, test_df)
           /\ seq' = <<ran.classifier>>
           /\ last_run' = <<ran.run>>
           /\ seq_args' = [seq_args EXCEPT !.do_eval = FALSE]
    /\ UNCHANGED <<seq_trained, classifier_name, facade>>

\* one HappyXLNET instance; the facade of the newer package is left alone
InitXLNet ==
    /\ InitOn(PlainMachines)
    /\ ~torch.cuda_available
    /\ cls = "HappyGeneration"

NextXLNet ==
    \/ \E name \in ClassifierNames : _init_sequence_classifier(name)
    \/ \E train_df \in DataFrames : _train_sequence_classifier(train_df)
    \/ \E test_df \in DataFrames : _test_sequence_classifier(test_df)

SpecXLNet == InitXLNet /\ [][NextXLNet]_vars

----------------------------------------------------------------------------
(* Properties *)

Active == call /= <<>>
Args   == call[1].args

\* library calls that read, split, tokenize or cache a dataset
SourceOps == {"load_dataset", "shuffle", "train_test_split", "_tok_function"}
CacheOps  == {"load_from_disk", "save_to_disk"}
TrainerOps == {"_get_training_args", "train_class", "trainer.train"}

\* C1: a train() call with eval_ratio <= 0 and no eval_filepath raises the
\* ValueError of train()'s own check, and at no point of the call has a file
\* type been resolved, a dataset been loaded, split, tokenized, read from or
\* written to the cache, or a trainer been configured, built or run.
C1_InvalidEvalArgsFailFirst ==
    (Active /\ Args.eval_ratio <= 0 /\ call[1].eval_filepath = EmptyPath)
        => /\ pc = "raised"
           /\ exc = Raise("ValueError", "Please set TrainArgs.eval_ratio")
           /\ log = <<>>
           /\ tok = <<>>
           /\ training_args = <<>>

C1_Witness ==
    /\ Active
    /\ Args.eval_ratio = 0
    /\ call[1].eval_filepath = EmptyPath
    /\ ~Args.load_preprocessed_data
    /\ pc = "raised"

\* C2: a train() call with fp16 set on an instance whose device is not CUDA
\* never loads or tokenizes data, never reads the cache, never starts
\* trainer.train(), never returns normally, and what it raises is a
\* ValueError.
C2_Fp16RejectedBeforeData ==
    (Active /\ Args.fp16 /\ device /= "cuda")
        => /\ Ops(log) \cap (SourceOps \cup CacheOps \cup {"trainer.train"}) = {}
           /\ pc /= "returned"
           /\ (pc = "raised" => exc.kind = "ValueError")

\* C3: every _check_file_type call on a path ending in .txt returns "text",
\* every call on a path ending in .csv returns "csv", and every call on any
\* other path returns nothing and raises a ValueError.
C3_ResolverByExtension ==
    \A i \in 1..Len(log) :
        log[i].op = "_check_file_type" =>
            /\ EndsWith(log[i].arg, ExtTxt) => log[i].res = "text"
            /\ EndsWith(log[i].arg, ExtCsv) => log[i].res = "csv"
            /\ (~EndsWith(log[i].arg, ExtTxt) /\ ~EndsWith(log[i].arg, ExtCsv))
                   => (log[i].res = "None" /\ exc.kind = "ValueError")

\* C4: _check_file_type never returns a format the task does not support,
\* and no file is loaded as such a format.
C4_UnsupportedFormatRejected ==
    \A i \in 1..Len(log) :
        (log[i].op \in {"_check_file_type", "load_dataset"} /\ log[i].res /= "None")
            => log[i].res \in _t_data_file_type

\* C5: a train() call with load_preprocessed_data off whose input_filepath
\* and eval_filepath resolve to different formats loads neither file, does
\* not return, and what it raises is a ValueError.
C5_MismatchRejectedBeforeLoad ==
    (/\ Active
     /\ ~Args.load_preprocessed_data
     /\ call[1].eval_filepath /= EmptyPath
     /\ splitext(call[1].input_filepath)[2] \in DOMAIN ending_map
     /\ splitext(call[1].eval_filepath)[2] \in DOMAIN ending_map
     /\ splitext(call[1].input_filepath)[2] /= splitext(call[1].eval_filepath)[2])
        => /\ "load_dataset" \notin Ops(log)
           /\ pc \notin {"run_train", "returned"}
           /\ (pc = "raised" => exc.kind = "ValueError")

\* a call that asks for the cache and also names an eval file
C6_CacheRequested ==
    /\ Active
    /\ Args.load_preprocessed_data
    /\ call[1].eval_filepath /= EmptyPath

\* C6: in a train() call with load_preprocessed_data set and an
\* eval_filepath given, (a) no file type is resolved and no source file is
\* loaded, shuffled, split or tokenized at any point of the call, (b) the
\* cache is only read after the warning has been logged, and (c) the step
\* of _preprocess_data_train that returns partitions returns exactly the
\* train and eval partitions that were on disk, with the warning logged.
C6_CachePrecedence ==
    /\ [](C6_CacheRequested =>
            /\ Ops(log) \cap (SourceOps \cup {"_check_file_type"}) = {}
            /\ \A i \in 1..Len(log) :
                  log[i].op = "load_from_disk" =>
                      \E j \in 1..(i - 1) : log[j].op = "logger.warning")
    /\ [][(C6_CacheRequested /\ pc = "preprocess" /\ tok' /= <<>>) =>
            /\ disk /= <<>>
            /\ tok'[1].train = disk[1].train
            /\ tok'[1].eval = disk[1].eval
            /\ "logger.warning" \in Ops(log')]_vars

C6_Witness ==
    /\ C6_CacheRequested
    /\ pc = "returned"
    /\ tok /= <<>>
    /\ "load_from_disk" \in Ops(log)
    /\ tok[1].eval[1].row.file /= call[1].eval_filepath

\* C7: when the same train() call (same input file, same eval_ratio, no
\* eval_filepath, load_preprocessed_data off) is made twice, the second
\* run's train and eval partitions equal the first run's.
C7_SplitIsReproducible ==
    (/\ Active
     /\ first_run /= <<>>
     /\ tok /= <<>>
     /\ ~Args.load_preprocessed_data
     /\ call[1].eval_filepath = EmptyPath)
        => tok = first_run

\* the device the documented preference order selects
PreferredDevice(t) ==
    IF t.mps_available /\ t.mps_built THEN "mps"
    ELSE IF t.cuda_available THEN "cuda"
    ELSE "cpu"

\* C8: after construction the device is mps whenever mps is available and
\* built, otherwise cuda whenever cuda is available, otherwise cpu, and the
\* model is on that device.
C8_DevicePreference ==
    device /= "unset" =>
        /\ device = PreferredDevice(torch)
        /\ model_device = device

\* C9: (a) a train() call with save_preprocessed_data set and a
\* save_preprocessed_data_path ending in .json never loads, splits or
\* tokenizes a source file, never reads the cache, never returns, and what
\* it raises is a ValueError; (b) a call is rejected for its .json save path
\* only when save_preprocessed_data is set.
C9_JsonSavePathRejectedFirst ==
    /\ (Active /\ Args.save_preprocessed_data
               /\ EndsWith(Args.save_preprocessed_data_path, ExtJson))
           => /\ Ops(log) \cap (SourceOps \cup CacheOps) = {}
              /\ pc \notin {"run_train", "returned"}
              /\ (pc = "raised" => exc.kind = "ValueError")
    /\ (Active /\ exc = Raise("ValueError", "preprocessed files are not json"))
           => Args.save_preprocessed_data

\* C10: in the kwargs _get_training_args builds, for each of save, eval and
\* logging: the strategy is "no" exactly when that axis's steps value is not
\* greater than 0 and "steps" otherwise, and the steps value is the caller's,
\* unchanged.  Each strategy therefore depends on its own axis alone.
C10_StrategyPerAxis ==
    training_args /= <<>> =>
        LET k == training_args[1]
        IN  /\ k.save_strategy = (IF Args.save_steps > 0 THEN "steps" ELSE "no")
            /\ k.evaluation_strategy = (IF Args.eval_steps > 0 THEN "steps" ELSE "no")
            /\ k.logging_strategy = (IF Args.logging_steps > 0 THEN "steps" ELSE "no")
            /\ k.save_steps = Args.save_steps
            /\ k.eval_steps = Args.eval_steps
            /\ k.logging_steps = Args.logging_steps

C10_Witness ==
    /\ training_args /= <<>>
    /\ Args.save_steps = 0
    /\ Args.eval_steps > 0
    /\ Args.logging_steps < 0
    /\ training_args[1].save_strategy = "no"
    /\ training_args[1].evaluation_strategy = "steps"
    /\ pc = "returned"

\* the trainer class the task calls for
TaskTrainer(type) == IF type = "tt" THEN "Seq2SeqTrainer" ELSE "Trainer"

\* C11: every trainer built, by a training run or by an evaluation run, is
\* the sequence-to-sequence trainer exactly when _type is "tt" and the
\* generic trainer otherwise; and the argument class a training run builds
\* is the sequence-to-sequence one exactly when its trainer class is.
C11_TrainerMatchesTask ==
    \A i \in 1..Len(log) :
        /\ log[i].op \in {"train_class", "eval_class"} => log[i].res = TaskTrainer(_type)
        /\ log[i].op = "train_class" =>
              \E j \in 1..(i - 1) :
                  /\ log[j].op = "_get_training_args"
                  /\ (log[j].res = "Seq2SeqTrainingArguments")
                         = (log[i].res = "Seq2SeqTrainer")

\* C12: every run of the classifier in evaluation mode (do_eval set, after
\* dev.tsv was written) is a run of a classifier that has itself completed
\* a training run, that is, of the one created by the latest
\* _init_sequence_classifier and trained since; and seq_trained is set only
\* when a classifier has been initialized.
C12_TestedClassifierIsTrained ==
    /\ (last_run /= <<>> /\ last_run[1].do_eval) => last_run[1].classifier.trained
    /\ seq_trained => seq /= <<>>

====
